---- MODULE Spec2Model ----
(***************************************************************************)
(* Model of goober's layer core: the dense Layer<T, M, N> and the          *)
(* SparseLayer<T, M, N> of src/goober/src/layer.rs with their forward      *)
(* pass, backpropagation, Adam update and AddAssign merge, and the         *)
(* boxed_and_zeroed helper of src/goober-layer/src/lib.rs.                 *)
(*                                                                         *)
(* Numbers are f32 values.  The model keeps to integer-valued f32s: an     *)
(* integer is an f32 exactly when it fits Precision significant bits, and  *)
(* every arithmetic result is rounded to the nearest such value, ties to   *)
(* even, as IEEE-754 single precision does.                                *)
(***************************************************************************)
EXTENDS Integers, Sequences, FiniteSets, TLC

\* ---------------------------------------------------------------- bounds
\* Input width (dense) / feature-space size (sparse): const generic M.
M == 2
\* Output width: const generic N.
N == 2
\* Longest active-feature list handed to a SparseLayer.
MaxFeats == 2
\* Longest sequence of calls explored in a layer's life.
MaxOps == 2
\* Longest sequence of calls explored at rounding magnitudes.
MaxCalls == 1
\* Training samples in one accumulation pass.
MaxSamples == 3

\* ------------------------------------------------- f32 arithmetic (consumed)
\* Significand width of f32, the element type of Vector and Matrix.
Precision == 24

RECURSIVE Pow2(_)
Pow2(n) == IF n = 0 THEN 1 ELSE 2 * Pow2(n - 1)

\* Smallest positive integer from which f32 no longer holds every integer.
Big == Pow2(Precision)

\* Spacing of the f32 grid at magnitude a >= 0.
RECURSIVE Ulp(_)
Ulp(a) == IF a < Big THEN 1 ELSE 2 * Ulp(a \div 2)

\* Round-to-nearest, ties-to-even, of a magnitude a >= 0.
RoundEven(a) ==
    LET u == Ulp(a)
        q == a \div u
        r == a % u
    IN  IF 2 * r > u \/ (2 * r = u /\ q % 2 = 1) THEN (q + 1) * u ELSE q * u

\* The f32 nearest to the exact result x.
Fl(x) == IF x < 0 THEN 0 - RoundEven(0 - x) ELSE RoundEven(x)

\* f32 + f32 and f32 * f32.
FAdd(a, b) == Fl(a + b)
FMul(a, b) == Fl(a * b)


\* ------------------------------------------ Vector / Matrix primitives
\* A Vector<n> is a function on 1..n; a Matrix<r, c> is r rows, each a
\* Vector<c>.

\* Vector::zeroed and Matrix::zeroed.
VecZeroed(n) == [j \in 1..n |-> 0]
MatZeroed(r, c) == [i \in 1..r |-> VecZeroed(c)]

\* Vector + Vector (and +=), elementwise.
VecAdd(u, v) == [j \in DOMAIN u |-> FAdd(u[j], v[j])]

\* Vector * Vector, elementwise.
VecMul(u, v) == [j \in DOMAIN u |-> FMul(u[j], v[j])]

\* f32 * Vector.
ScalarMul(s, v) == [j \in DOMAIN v |-> FMul(s, v[j])]

\* Matrix += Matrix, elementwise.
MatAdd(A, B) == [i \in DOMAIN A |-> VecAdd(A[i], B[i])]

\* Sum of t[1..n], accumulated left to right from 0.0.
RECURSIVE SumTo(_, _)
SumTo(t, n) == IF n = 0 THEN 0 ELSE FAdd(SumTo(t, n - 1), t[n])

\* Matrix<r, c> * Vector<c>: row i of the result is dot(A[i], v).
MatMulVec(A, v) ==
    [i \in DOMAIN A |->
        SumTo([j \in DOMAIN v |-> FMul(A[i][j], v[j])], Len(v))]

\* Matrix::transpose_mul: A^T * v, a Vector<c> for a Matrix<r, c>.
MatTransposeMul(A, v) ==
    [j \in DOMAIN A[1] |->
        SumTo([i \in DOMAIN A |-> FMul(A[i][j], v[i])], Len(v))]

\* ------------------------------------------------------------ activations
\* The activations a layer can be instantiated with (type parameter T).
Activations == {"Identity", "ReLU"}

\* Vector::activate::<T>, elementwise.
Activate(T, v) ==
    [j \in DOMAIN v |-> IF T = "ReLU" /\ v[j] < 0 THEN 0 ELSE v[j]]

\* Vector::derivative::<T>, elementwise, as a function of the forward OUTPUT.
Derivative(T, v) ==
    [j \in DOMAIN v |-> IF T = "ReLU" /\ v[j] <= 0 THEN 0 ELSE 1]

\* ------------------------------------------------------------------ Adam
\* Hyper-parameters of the elementwise Adam rule, as ratios: beta1 = 9/10,
\* beta2 = 999/1000, epsilon = 1/100000000.
Beta1Num == 9
Beta1Den == 10
Beta2Num == 999
Beta2Den == 1000
EpsInv == 100000000

\* Nearest integer to a / b for b > 0, ties to even: a quotient on the
\* model's integer grid.
RoundDiv(a, b) ==
    LET n == IF a < 0 THEN 0 - a ELSE a
        q == n \div b
        r == n % b
        m == IF 2 * r > b \/ (2 * r = b /\ q % 2 = 1) THEN q + 1 ELSE q
    IN  IF a < 0 THEN 0 - m ELSE m

\* Nearest integer to sqrt(a), a >= 0.
RECURSIVE FloorSqrt(_)
FloorSqrt(a) ==
    IF a < 2 THEN a
    ELSE LET s == 2 * FloorSqrt(a \div 4)
         IN  IF (s + 1) * (s + 1) <= a THEN s + 1 ELSE s
RoundSqrt(a) ==
    LET s == FloorSqrt(a) IN IF a - s * s > s THEN s + 1 ELSE s

\* One parameter's Adam step: [p, m, v] after the update with gradient g.
\* sqrt(v) + epsilon is sqrt(v) itself once sqrt(v) >= 1 (epsilon is below
\* half an ulp there) and epsilon when sqrt(v) = 0.
AdamElem(p, g, m, v, adj, lr) ==
    LET m1 == Fl(RoundDiv(Beta1Num * m + (Beta1Den - Beta1Num) * g, Beta1Den))
        v1 == Fl(RoundDiv(Beta2Num * v + (Beta2Den - Beta2Num) * g * g, Beta2Den))
        s  == RoundSqrt(v1)
        step == IF s = 0 THEN FMul(FMul(FMul(lr, adj), m1), EpsInv)
                ELSE Fl(RoundDiv(FMul(FMul(lr, adj), m1), s))
    IN  [p |-> FAdd(p, 0 - step), m |-> m1, v |-> v1]

\* Vector::adam: the rule on every entry; entry j holds the new [p, m, v].
VecAdam(p, g, m, v, adj, lr) ==
    [j \in DOMAIN p |-> AdamElem(p[j], g[j], m[j], v[j], adj, lr)]

\* Matrix::adam: the rule on every entry of every row.
MatAdam(p, g, m, v, adj, lr) ==
    [i \in DOMAIN p |-> VecAdam(p[i], g[i], m[i], v[i], adj, lr)]

\* The p, m or v component of an updated vector / matrix.
VecPart(e, f) == [j \in DOMAIN e |-> e[j][f]]
MatPart(e, f) == [i \in DOMAIN e |-> VecPart(e[i], f)]

\* ------------------------------------------------------ f32 in memory
\* Size of one f32 in bytes.
F32Bytes == 4

\* The f32 stored little-endian in bytes 4(k-1)+1 .. 4k of mem, on the
\* model's integer grid: sign bit, 8 exponent bits (bias 127), 23 fraction
\* bits.  The all-zero pattern is +0.0.
F32At(mem, k) ==
    LET b(i) == mem[F32Bytes * (k - 1) + i]
        neg  == b(4) \div 128 = 1
        e    == (b(4) % 128) * 2 + b(3) \div 128
        f    == (b(3) % 128) * 65536 + b(2) * 256 + b(1)
        sig  == Pow2(Precision - 1) + f
        mag  == IF e = 0 THEN 0
                ELSE IF e >= 126 + Precision THEN sig * Pow2(e - 126 - Precision)
                ELSE RoundDiv(sig, Pow2(126 + Precision - e))
    IN  IF neg THEN 0 - mag ELSE mag

\* std::alloc::alloc_zeroed: size bytes, every one zero.
AllocZeroed(size) == [i \in 1..size |-> 0]

\* --------------------------------------------------------------- Layer
\* Layer<T, M, N>: weights is a Matrix<N, M>, bias a Vector<N>.
LayerFromRaw(weights, bias) == [weights |-> weights, bias |-> bias]

LayerZeroed == LayerFromRaw(MatZeroed(N, M), VecZeroed(N))

LayerOutputLayer(self) == VecZeroed(N)

\* Mutant: the bias is not merged.
LayerAddAssignNoBias(self, rhs) ==
    [weights |-> MatAdd(self.weights, rhs.weights), bias |-> self.bias]

LayerAddAssign(self, rhs) ==
    [weights |-> MatAdd(self.weights, rhs.weights),
     bias    |-> VecAdd(self.bias, rhs.bias)]

LayerOut(T, self, inp) ==
    Activate(T, VecAdd(MatMulVec(self.weights, inp), self.bias))

LayerTransposeMul(self, out) == MatTransposeMul(self.weights, out)

\* Mutant: `*row = cumulated[i] * *inp` where the code has `+=`.
LayerBackpropOverwrite(T, self, grad, cumulated, inp, out) ==
    LET cum == VecMul(cumulated, Derivative(T, out))
        w   == [i \in DOMAIN grad.weights |-> ScalarMul(cum[i], inp)]
    IN  [self |-> self,
         grad |-> [weights |-> w, bias |-> VecAdd(grad.bias, cum)],
         ret  |-> MatTransposeMul(self.weights, cum)]

\* Mutant: the rows are accumulated into the layer itself, not into grad.
LayerBackpropIntoSelf(T, self, grad, cumulated, inp, out) ==
    LET cum == VecMul(cumulated, Derivative(T, out))
        w   == [i \in DOMAIN self.weights |->
                   VecAdd(self.weights[i], ScalarMul(cum[i], inp))]
    IN  [self |-> [weights |-> w, bias |-> self.bias],
         grad |-> [weights |-> grad.weights, bias |-> VecAdd(grad.bias, cum)],
         ret  |-> MatTransposeMul(self.weights, cum)]

\* backprop: the receiver (&self) and the accumulator (&mut) after the call,
\* and the returned Vector<M>.
LayerBackprop(T, self, grad, cumulated, inp, out) ==
    LET cum == VecMul(cumulated, Derivative(T, out))
        w   == [i \in DOMAIN grad.weights |->
                   VecAdd(grad.weights[i], ScalarMul(cum[i], inp))]
    IN  [self |-> self,
         grad |-> [weights |-> w, bias |-> VecAdd(grad.bias, cum)],
         ret  |-> LayerTransposeMul(self, cum)]

\* Mutant: the bias is not updated.
LayerAdamNoBias(self, grad, momentum, velocity, adj, lr) ==
    LET w == MatAdam(self.weights, grad.weights, momentum.weights,
                     velocity.weights, adj, lr)
    IN  [grad     |-> grad,
         self     |-> [weights |-> MatPart(w, "p"), bias |-> self.bias],
         momentum |-> [weights |-> MatPart(w, "m"), bias |-> momentum.bias],
         velocity |-> [weights |-> MatPart(w, "v"), bias |-> velocity.bias]]

\* adam: the layer, momentum and velocity (&mut) and the gradient (&) after
\* the call.
LayerAdam(self, grad, momentum, velocity, adj, lr) ==
    LET w == MatAdam(self.weights, grad.weights, momentum.weights,
                     velocity.weights, adj, lr)
        b == VecAdam(self.bias, grad.bias, momentum.bias, velocity.bias,
                     adj, lr)
    IN  [grad     |-> grad,
         self     |-> [weights |-> MatPart(w, "p"), bias |-> VecPart(b, "p")],
         momentum |-> [weights |-> MatPart(w, "m"), bias |-> VecPart(b, "m")],
         velocity |-> [weights |-> MatPart(w, "v"), bias |-> VecPart(b, "v")]]

\* --------------------------------------------------------- SparseLayer
\* SparseLayer<T, M, N>: weights is a Matrix<M, N> (one row per feature),
\* bias a Vector<N>.
SparseFromRaw(weights, bias) == [weights |-> weights, bias |-> bias]

SparseZeroed == SparseFromRaw(MatZeroed(M, N), VecZeroed(N))

SparseOutputLayer(self) == VecZeroed(N)

\* Mutant: `=` where the code has `+=`.
SparseAddAssignOverwrite(self, rhs) ==
    [weights |-> rhs.weights, bias |-> rhs.bias]

SparseAddAssign(self, rhs) ==
    [weights |-> MatAdd(self.weights, rhs.weights),
     bias    |-> VecAdd(self.bias, rhs.bias)]

SparseWeightsRow(self, idx) == self.weights[idx]

SparseBias(self) == self.bias

\* The loop of out: res += self.weights[feat] for each listed feat in turn.
RECURSIVE SparseOutLoop(_, _, _)
SparseOutLoop(res, weights, feats) ==
    IF feats = <<>> THEN res
    ELSE SparseOutLoop(VecAdd(res, weights[Head(feats)]), weights, Tail(feats))

\* Mutant: res starts from zero, not from the bias.
SparseOutNoBias(T, self, feats) ==
    Activate(T, SparseOutLoop(VecZeroed(N), self.weights, feats))

\* Mutant: an index listed again is skipped.
RECURSIVE Dedup(_)
Dedup(feats) ==
    IF feats = <<>> THEN <<>>
    ELSE LET f == Dedup([k \in 1..(Len(feats) - 1) |-> feats[k]])
             x == feats[Len(feats)]
         IN  IF \E k \in 1..Len(f) : f[k] = x THEN f ELSE Append(f, x)
SparseOutDedup(T, self, feats) ==
    Activate(T, SparseOutLoop(self.bias, self.weights, Dedup(feats)))

SparseOut(T, self, feats) ==
    Activate(T, SparseOutLoop(self.bias, self.weights, feats))

\* The loop of backprop: grad.weights[feat] += cumulated for each feat in turn.
RECURSIVE SparseBackpropLoop(_, _, _)
SparseBackpropLoop(weights, feats, cum) ==
    IF feats = <<>> THEN weights
    ELSE SparseBackpropLoop(
             [weights EXCEPT ![Head(feats)] = VecAdd(@, cum)], Tail(feats), cum)

\* Mutant: `grad.bias += cumulated` sits inside the loop.
RECURSIVE AddPerFeat(_, _, _)
AddPerFeat(bias, feats, cum) ==
    IF feats = <<>> THEN bias
    ELSE AddPerFeat(VecAdd(bias, cum), Tail(feats), cum)
SparseBackpropBiasPerFeat(T, self, grad, cumulated, feats, ft) ==
    LET cum == VecMul(cumulated, Derivative(T, ft))
    IN  [self |-> self,
         grad |-> [weights |-> SparseBackpropLoop(grad.weights, feats, cum),
                   bias    |-> AddPerFeat(grad.bias, feats, cum)],
         ret  |-> <<>>]

\* Mutant: the rows are accumulated into the layer itself, not into grad.
SparseBackpropIntoSelf(T, self, grad, cumulated, feats, ft) ==
    LET cum == VecMul(cumulated, Derivative(T, ft))
    IN  [self |-> [weights |-> SparseBackpropLoop(self.weights, feats, cum),
                   bias    |-> self.bias],
         grad |-> [weights |-> grad.weights, bias |-> VecAdd(grad.bias, cum)],
         ret  |-> <<>>]

\* backprop: the receiver (&self) and the accumulator (&mut) after the call;
\* the method returns ().
SparseBackprop(T, self, grad, cumulated, feats, ft) ==
    LET cum == VecMul(cumulated, Derivative(T, ft))
    IN  [self |-> self,
         grad |-> [weights |-> SparseBackpropLoop(grad.weights, feats, cum),
                   bias    |-> VecAdd(grad.bias, cum)],
         ret  |-> <<>>]

SparseAdam(self, grad, momentum, velocity, adj, lr) ==
    LET w == MatAdam(self.weights, grad.weights, momentum.weights,
                     velocity.weights, adj, lr)
        b == VecAdam(self.bias, grad.bias, momentum.bias, velocity.bias,
                     adj, lr)
    IN  [grad     |-> grad,
         self     |-> [weights |-> MatPart(w, "p"), bias |-> VecPart(b, "p")],
         momentum |-> [weights |-> MatPart(w, "m"), bias |-> VecPart(b, "m")],
         velocity |-> [weights |-> MatPart(w, "v"), bias |-> VecPart(b, "v")]]

\* ---------------------------------------------------- boxed_and_zeroed
\* Layout::new::<T>().size() of a layer: N * M weights and N biases, repr(C).
LayoutSize == F32Bytes * (N * M + N)

\* Box::from_raw(ptr.cast()): the bytes at mem read as a #[repr(C)] layer,
\* weights (rows of cols f32s) first, then the bias.
LayerAtMem(mem, rows, cols) ==
    [weights |-> [i \in 1..rows |-> [j \in 1..cols |->
                     F32At(mem, (i - 1) * cols + j)]],
     bias    |-> [j \in 1..N |-> F32At(mem, rows * cols + j)]]

\* Mutant: the memory comes from alloc, not alloc_zeroed, and holds what the
\* allocator left there.
BoxedAndStale(T) ==
    LET ptr == [i \in 1..LayoutSize |-> 63]
    IN  IF T = "Layer" THEN LayerAtMem(ptr, N, M) ELSE LayerAtMem(ptr, M, N)

\* boxed_and_zeroed::<T>() when the allocation succeeds: T is "Layer" or
\* "SparseLayer".
BoxedAndZeroed(T) ==
    LET ptr == AllocZeroed(LayoutSize)
    IN  IF T = "Layer" THEN LayerAtMem(ptr, N, M) ELSE LayerAtMem(ptr, M, N)


\* ================================================================ state
VARIABLES
    kind,       \* which struct is instantiated: "Layer" or "SparseLayer"
    act,        \* its activation, the type parameter T
    self,       \* the live layer: [weights, bias]
    grad,       \* the gradient accumulators, by name: same type as self
    momentum,   \* Adam first-moment state, same type as self
    velocity,   \* Adam second-moment state, same type as self
    last,       \* the last call: its receiver, arguments, result, pre-state
    memo,       \* the first out/backprop call since the parameters were set
    nops,       \* calls made so far
    limit,      \* calls the run may make
    alive,      \* FALSE once handle_alloc_error has aborted the process
    samples,    \* an accumulation pass: the training samples to process
    owner,      \* an accumulation pass: who processed sample i
    merged,     \* an accumulation pass: the workers' buffers were merged
    inexact     \* an accumulation pass: some += rounded its exact result

vars == <<kind, act, self, grad, momentum, velocity, last, memo, nops, limit,
          alive,
          samples, owner, merged, inexact>>

passVars == <<limit, samples, owner, merged, inexact>>

\* Names of the gradient accumulators a driver owns.
Accs == {"a", "b", "c"}

Kinds == {"Layer", "SparseLayer"}

\* ------------------------------------------------------- value families
\* The Vector<n> with a at position p and b elsewhere.
Pat(n, p, a, b) == [j \in 1..n |-> IF j = p THEN a ELSE b]
VecConst(n, v) == [j \in 1..n |-> v]

\* Matrices: identity-like, skew (entry i - j), constant, and one with a
\* first row of a and the other rows of b.
Eye(r, c) == [i \in 1..r |-> [j \in 1..c |-> IF i = j THEN 1 ELSE 0]]
Skew(r, c) == [i \in 1..r |-> [j \in 1..c |-> i - j]]
MatConst(r, c, v) == [i \in 1..r |-> VecConst(c, v)]
MatRow1(r, c, a, b) == [i \in 1..r |-> VecConst(c, IF i = 1 THEN a ELSE b)]

\* A layer of the given kind with every weight w and every bias b.
ConstLayer(k, w, b) ==
    IF k = "Layer" THEN LayerFromRaw(MatConst(N, M, w), VecConst(N, b))
    ELSE SparseFromRaw(MatConst(M, N, w), VecConst(N, b))

ZeroedOf(k) == IF k = "Layer" THEN LayerZeroed ELSE SparseZeroed

\* Parameters a layer is constructed with (from_raw), small magnitudes.
Params(k) ==
    IF k = "Layer"
    THEN {LayerFromRaw(Eye(N, M), VecZeroed(N)),
          LayerFromRaw(Skew(N, M), VecConst(N, 1))}
    ELSE {SparseFromRaw(Eye(M, N), VecZeroed(N)),
          SparseFromRaw(Skew(M, N), VecConst(N, 1))}

\* Parameters reaching the magnitude where f32 sums round.
ParamsF(k) ==
    IF k = "Layer"
    THEN {LayerFromRaw(Eye(N, M), VecZeroed(N)),
          LayerFromRaw(Skew(N, M), VecConst(N, Big))}
    ELSE {SparseFromRaw(Eye(M, N), VecZeroed(N)),
          SparseFromRaw(MatRow1(M, N, Big, 1), VecConst(N, 1)),
          SparseFromRaw(MatConst(M, N, 1), VecConst(N, Big))}

\* Contents of the accumulators when a run starts: freshly zeroed, or
\* holding gradients of earlier passes.
Grads(k) ==
    {[n \in Accs |-> ZeroedOf(k)],
     [n \in Accs |-> IF n = "a" THEN ConstLayer(k, 1000, 0 - 1000)
                     ELSE IF n = "b" THEN ConstLayer(k, 3, 4)
                     ELSE ZeroedOf(k)]}

GradsF(k) ==
    {[n \in Accs |-> ZeroedOf(k)],
     [n \in Accs |-> IF n = "a" THEN ConstLayer(k, Big, Big)
                     ELSE IF n = "b" THEN ConstLayer(k, 1, 1)
                     ELSE ConstLayer(k, 2, 3)],
     [n \in Accs |-> IF n = "b" THEN ConstLayer(k, Big, 0 - Big)
                     ELSE IF n = "a" THEN ConstLayer(k, 3, 1)
                     ELSE ZeroedOf(k)]}

\* Dense inputs: [3, .., 3, 4] and the first unit vector.
Inputs == {Pat(M, M, 4, 3), Pat(M, 1, 1, 0)}

\* Cumulated output gradients: all ones and the unit vectors.
Ones == {VecConst(N, 1)}
Cums == Ones \cup {Pat(N, i, 1, 0) : i \in 1..N}

\* ... and one that reaches the rounding magnitude.
CumsF == Cums \cup {Pat(N, 1, Big, 1)}

\* Active-feature lists, unsorted and with repeats: every list of at most
\* two indices below M and, up to length MaxFeats, feature 1 repeated, the
\* run 1, 2, .. (wrapping at M) and that run reversed.
Short == {<<>>} \cup {<<i>> : i \in 1..M} \cup {<<i, j>> : i, j \in 1..M}
Run(n) == [k \in 1..n |-> ((k - 1) % M) + 1]
Rev(f) == [k \in 1..Len(f) |-> f[Len(f) + 1 - k]]
Feats ==
    Short \cup {[k \in 1..n |-> 1] : n \in 0..MaxFeats}
          \cup {Run(n) : n \in 0..MaxFeats}
          \cup {Rev(Run(n)) : n \in 0..MaxFeats}

\* The lists a layer's life is explored with.
FewFeats == {<<1>>, <<M, 1>>}

\* The accumulators two workers fill.
Workers == {"a", "b"}

\* Adam's bias_correction and learning_rate arguments.
Adjs == {1, 2}
Lrs == {1}

NoCall ==
    [op |-> "new", recv |-> "none", old |-> <<>>, acc |-> "none",
     gold |-> <<>>, args |-> <<>>, ret |-> <<>>]

NoMemo == [op |-> "none"]

\* ----------------------------------------------------------------- Init
Start(n) ==
    /\ kind \in Kinds
    /\ act \in Activations
    /\ momentum = ZeroedOf(kind)
    /\ velocity = ZeroedOf(kind)
    /\ last = NoCall
    /\ memo = NoMemo
    /\ nops = 0
    /\ limit = n
    /\ alive = TRUE
    /\ samples = <<>>
    /\ owner = <<>>
    /\ merged = FALSE
    /\ inexact = FALSE

Init == Start(MaxOps) /\ self \in Params(kind) /\ grad \in Grads(kind)

InitF == Start(MaxCalls) /\ self \in ParamsF(kind) /\ grad \in GradsF(kind)

\* -------------------------------------------------------------- actions
\* A call is possible while the process is alive and the run is not over.
CanCall(k) == alive /\ kind = k /\ nops < limit

\* What every call records.
Called(op, recv, old, acc, gold, args, ret) ==
    /\ last' = [op |-> op, recv |-> recv, old |-> old, acc |-> acc,
                gold |-> gold, args |-> args, ret |-> ret]
    /\ nops' = nops + 1

\* The first out/backprop call since the parameters were set is remembered:
\* the accumulator it was given, the caller's arguments, and its results.
Remember(op, gold, args, ret, gnew) ==
    memo' = IF memo = NoMemo
            THEN [op |-> op, gold |-> gold, args |-> args, ret |-> ret,
                  gnew |-> gnew]
            ELSE memo

LayerOutCall(inp) ==
    /\ CanCall("Layer")
    /\ LET r == LayerOut(act, self, inp)
       IN  /\ Called("out", "self", self, "none", <<>>, <<inp>>, r)
           /\ Remember("out", <<>>, <<inp>>, r, <<>>)
    /\ UNCHANGED <<kind, act, self, grad, momentum, velocity, alive, passVars>>

LayerTransposeMulCall(out) ==
    /\ CanCall("Layer")
    /\ Called("transpose_mul", "self", self, "none", <<>>, <<out>>,
              LayerTransposeMul(self, out))
    /\ UNCHANGED <<kind, act, self, grad, momentum, velocity, memo, alive,
                   passVars>>

LayerOutputLayerCall ==
    /\ CanCall("Layer")
    /\ Called("output_layer", "self", self, "none", <<>>, <<>>,
              LayerOutputLayer(self))
    /\ UNCHANGED <<kind, act, self, grad, momentum, velocity, memo, alive,
                   passVars>>

\* The driver hands backprop the input and the forward output of that input.
LayerBackpropCall(g, cumulated, inp) ==
    /\ CanCall("Layer")
    /\ LET out == LayerOut(act, self, inp)
           r   == LayerBackprop(act, self, grad[g], cumulated, inp, out)
       IN  /\ self' = r.self
           /\ grad' = [grad EXCEPT ![g] = r.grad]
           /\ Called("backprop", "self", self, g, grad[g],
                     <<cumulated, inp, out>>, r.ret)
           /\ Remember("backprop", grad[g], <<cumulated, inp>>, r.ret, r.grad)
    /\ UNCHANGED <<kind, act, momentum, velocity, alive, passVars>>

LayerAdamCall(g, adj, lr) ==
    /\ CanCall("Layer")
    /\ LET r == LayerAdam(self, grad[g], momentum, velocity, adj, lr)
       IN  /\ self' = r.self
           /\ momentum' = r.momentum
           /\ velocity' = r.velocity
           /\ grad' = [grad EXCEPT ![g] = r.grad]
           /\ Called("adam", "self", self, g, grad[g],
                     <<momentum, velocity, adj, lr>>, <<>>)
    /\ memo' = NoMemo
    /\ UNCHANGED <<kind, act, alive, passVars>>

\* lhs += rhs on two accumulators (rhs is passed by value: Layer is Copy).
LayerAddAssignCall(lhs, rhs) ==
    /\ CanCall("Layer")
    /\ LET r == LayerAddAssign(grad[lhs], grad[rhs])
       IN  /\ grad' = [grad EXCEPT ![lhs] = r]
           /\ Called("add_assign", lhs, grad[lhs], rhs, grad[rhs],
                     <<grad[rhs]>>, r)
    /\ UNCHANGED <<kind, act, self, momentum, velocity, memo, alive, passVars>>

\* An accumulator is replaced by a fresh Layer::zeroed().
LayerZeroedCall(g) ==
    /\ CanCall("Layer")
    /\ grad' = [grad EXCEPT ![g] = LayerZeroed]
    /\ Called("zeroed", "none", <<>>, g, grad[g], <<>>, LayerZeroed)
    /\ UNCHANGED <<kind, act, self, momentum, velocity, memo, alive, passVars>>

SparseOutCall(feats) ==
    /\ CanCall("SparseLayer")
    /\ LET r == SparseOut(act, self, feats)
       IN  /\ Called("out", "self", self, "none", <<>>, <<feats>>, r)
           /\ Remember("out", <<>>, <<feats>>, r, <<>>)
    /\ UNCHANGED <<kind, act, self, grad, momentum, velocity, alive, passVars>>

SparseWeightsRowCall(idx) ==
    /\ CanCall("SparseLayer")
    /\ Called("weights_row", "self", self, "none", <<>>, <<idx>>,
              SparseWeightsRow(self, idx))
    /\ UNCHANGED <<kind, act, self, grad, momentum, velocity, memo, alive,
                   passVars>>

SparseBiasCall ==
    /\ CanCall("SparseLayer")
    /\ Called("bias", "self", self, "none", <<>>, <<>>, SparseBias(self))
    /\ UNCHANGED <<kind, act, self, grad, momentum, velocity, memo, alive,
                   passVars>>

SparseOutputLayerCall ==
    /\ CanCall("SparseLayer")
    /\ Called("output_layer", "self", self, "none", <<>>, <<>>,
              SparseOutputLayer(self))
    /\ UNCHANGED <<kind, act, self, grad, momentum, velocity, memo, alive,
                   passVars>>

SparseBackpropCall(g, cumulated, feats) ==
    /\ CanCall("SparseLayer")
    /\ LET ft == SparseOut(act, self, feats)
           r  == SparseBackprop(act, self, grad[g], cumulated, feats, ft)
       IN  /\ self' = r.self
           /\ grad' = [grad EXCEPT ![g] = r.grad]
           /\ Called("backprop", "self", self, g, grad[g],
                     <<cumulated, feats, ft>>, r.ret)
           /\ Remember("backprop", grad[g], <<cumulated, feats>>, r.ret, r.grad)
    /\ UNCHANGED <<kind, act, momentum, velocity, alive, passVars>>

SparseAdamCall(g, adj, lr) ==
    /\ CanCall("SparseLayer")
    /\ LET r == SparseAdam(self, grad[g], momentum, velocity, adj, lr)
       IN  /\ self' = r.self
           /\ momentum' = r.momentum
           /\ velocity' = r.velocity
           /\ grad' = [grad EXCEPT ![g] = r.grad]
           /\ Called("adam", "self", self, g, grad[g],
                     <<momentum, velocity, adj, lr>>, <<>>)
    /\ memo' = NoMemo
    /\ UNCHANGED <<kind, act, alive, passVars>>

SparseAddAssignCall(lhs, rhs) ==
    /\ CanCall("SparseLayer")
    /\ LET r == SparseAddAssign(grad[lhs], grad[rhs])
       IN  /\ grad' = [grad EXCEPT ![lhs] = r]
           /\ Called("add_assign", lhs, grad[lhs], rhs, grad[rhs],
                     <<grad[rhs]>>, r)
    /\ UNCHANGED <<kind, act, self, momentum, velocity, memo, alive, passVars>>

SparseZeroedCall(g) ==
    /\ CanCall("SparseLayer")
    /\ grad' = [grad EXCEPT ![g] = SparseZeroed]
    /\ Called("zeroed", "none", <<>>, g, grad[g], <<>>, SparseZeroed)
    /\ UNCHANGED <<kind, act, self, momentum, velocity, memo, alive, passVars>>

\* boxed_and_zeroed::<T>() for the instantiated layer type; the box replaces
\* accumulator g.  alloc_zeroed may return null: handle_alloc_error aborts.
BoxedAndZeroedCall(g, ok) ==
    /\ alive /\ nops < limit
    /\ IF ok
       THEN /\ grad' = [grad EXCEPT ![g] = BoxedAndZeroed(kind)]
            /\ Called("boxed_and_zeroed", "none", <<>>, g, grad[g], <<>>,
                      BoxedAndZeroed(kind))
            /\ alive' = TRUE
       ELSE /\ Called("abort", "none", <<>>, "none", <<>>, <<>>, <<>>)
            /\ alive' = FALSE
            /\ UNCHANGED grad
    /\ UNCHANGED <<kind, act, self, momentum, velocity, memo, passVars>>

\* ---------------------------------------------- the layer's life (Spec)
Next ==
    \/ \E inp \in Inputs : LayerOutCall(inp)
    \/ \E out \in Ones : LayerTransposeMulCall(out)
    \/ LayerOutputLayerCall
    \/ \E g \in Workers, c \in Ones, inp \in Inputs :
           LayerBackpropCall(g, c, inp)
    \/ \E adj \in Adjs, lr \in Lrs : LayerAdamCall("a", adj, lr)
    \/ \E lhs, rhs \in Workers : lhs # rhs /\ LayerAddAssignCall(lhs, rhs)
    \/ LayerZeroedCall("a")
    \/ \E feats \in FewFeats : SparseOutCall(feats)
    \/ \E idx \in 1..M : SparseWeightsRowCall(idx)
    \/ SparseBiasCall
    \/ SparseOutputLayerCall
    \/ \E g \in Workers, c \in Ones, feats \in FewFeats :
           SparseBackpropCall(g, c, feats)
    \/ \E adj \in Adjs, lr \in Lrs : SparseAdamCall("a", adj, lr)
    \/ \E lhs, rhs \in Workers : lhs # rhs /\ SparseAddAssignCall(lhs, rhs)
    \/ SparseZeroedCall("a")
    \/ \E ok \in BOOLEAN : BoxedAndZeroedCall("a", ok)

Spec == Init /\ [][Next]_vars

\* ------------------- single calls at rounding magnitudes (SpecF), no Adam
NextF ==
    \/ \E inp \in Inputs : LayerOutCall(inp)
    \/ \E out \in CumsF : LayerTransposeMulCall(out)
    \/ \E c \in CumsF, inp \in Inputs : LayerBackpropCall("a", c, inp)
    \/ \E lhs, rhs \in Accs : LayerAddAssignCall(lhs, rhs)
    \/ \E feats \in Feats : SparseOutCall(feats)
    \/ \E c \in CumsF, feats \in Feats : SparseBackpropCall("a", c, feats)
    \/ \E lhs, rhs \in Accs : SparseAddAssignCall(lhs, rhs)

SpecF == InitF /\ [][NextF]_vars

\* ------------------------------------ an accumulation pass (SpecPass)
\* A driver's pass over a multiset of samples: two workers each backprop
\* the samples they take into their own zeroed accumulator, in any order and
\* interleaving, and the driver then merges b into a.  A sample is a
\* cumulated output gradient c and an input inp (a dense vector, or a list
\* of feature indices).
SampleTable(k) ==
    IF k = "Layer"
    THEN <<[c |-> Pat(N, 1, Big, 1), inp |-> Pat(M, 1, 1, 0)],
           [c |-> VecConst(N, 1),    inp |-> Pat(M, 1, 1, 0)],
           [c |-> VecConst(N, 1),    inp |-> Pat(M, M, 4, 3)]>>
    ELSE <<[c |-> Pat(N, 1, Big, 1), inp |-> <<1>>],
           [c |-> VecConst(N, 1),    inp |-> <<1>>],
           [c |-> VecConst(N, 1),    inp |-> <<M, 1, 1>>]>>

\* The multisets of MaxSamples samples, each listed in table order.
SampleLists(k) ==
    {[i \in 1..MaxSamples |-> SampleTable(k)[ix[i]]] :
        ix \in {f \in [1..MaxSamples -> 1..Len(SampleTable(k))] :
                   \A i \in 1..(MaxSamples - 1) : f[i] <= f[i + 1]}}

InitPass ==
    /\ kind \in Kinds
    /\ act \in Activations
    /\ self \in Params(kind)
    /\ grad = [n \in Accs |-> ZeroedOf(kind)]
    /\ momentum = ZeroedOf(kind)
    /\ velocity = ZeroedOf(kind)
    /\ last = NoCall
    /\ memo = NoMemo
    /\ nops = 0
    /\ limit = 0
    /\ alive = TRUE
    /\ samples \in SampleLists(kind)
    /\ owner = [i \in 1..MaxSamples |-> "none"]
    /\ merged = FALSE
    /\ inexact = FALSE

\* Whether the f32 sum a + b differs from the exact sum.
Rounds(a, b) == Fl(a + b) # a + b

\* Occurrences of feature f in a list.
RECURSIVE Count(_, _)
Count(f, feats) ==
    IF feats = <<>> THEN 0
    ELSE (IF Head(feats) = f THEN 1 ELSE 0) + Count(f, Tail(feats))

\* delta of a sample: c * derivative(forward output), elementwise.
LayerDelta(smp) ==
    VecMul(smp.c, Derivative(act, LayerOut(act, self, smp.inp)))
SparseDelta(smp) ==
    VecMul(smp.c, Derivative(act, SparseOut(act, self, smp.inp)))

\* Whether accumulating a sample onto accumulator g rounds some sum.
LayerRounds(g, smp) ==
    LET d == LayerDelta(smp)
    IN  \/ \E i \in 1..N, j \in 1..M :
               Rounds(g.weights[i][j], FMul(d[i], smp.inp[j]))
        \/ \E i \in 1..N : Rounds(g.bias[i], d[i])
SparseRounds(g, smp) ==
    LET d == SparseDelta(smp)
    IN  \/ \E f \in 1..M, j \in 1..N :
               \E r \in 1..Count(f, smp.inp) :
                   Rounds(g.weights[f][j] + (r - 1) * d[j], d[j])
        \/ \E j \in 1..N : Rounds(g.bias[j], d[j])

\* Whether lhs += rhs rounds some sum.
MergeRounds(lhs, rhs) ==
    \/ \E i \in DOMAIN lhs.weights, j \in DOMAIN lhs.weights[1] :
           Rounds(lhs.weights[i][j], rhs.weights[i][j])
    \/ \E j \in 1..N : Rounds(lhs.bias[j], rhs.bias[j])

\* Worker w runs the forward pass of sample i, then backprop into grad[w].
LayerPassBackprop(w, i) ==
    /\ kind = "Layer" /\ ~merged /\ owner[i] = "none"
    /\ LET smp == samples[i]
           out == LayerOut(act, self, smp.inp)
           r   == LayerBackprop(act, self, grad[w], smp.c, smp.inp, out)
       IN  /\ self' = r.self
           /\ grad' = [grad EXCEPT ![w] = r.grad]
           /\ inexact' = (inexact \/ LayerRounds(grad[w], smp))
    /\ owner' = [owner EXCEPT ![i] = w]
    /\ UNCHANGED <<kind, act, momentum, velocity, last, memo, nops,
                   limit, alive, samples, merged>>

SparsePassBackprop(w, i) ==
    /\ kind = "SparseLayer" /\ ~merged /\ owner[i] = "none"
    /\ LET smp == samples[i]
           ft  == SparseOut(act, self, smp.inp)
           r   == SparseBackprop(act, self, grad[w], smp.c, smp.inp, ft)
       IN  /\ self' = r.self
           /\ grad' = [grad EXCEPT ![w] = r.grad]
           /\ inexact' = (inexact \/ SparseRounds(grad[w], smp))
    /\ owner' = [owner EXCEPT ![i] = w]
    /\ UNCHANGED <<kind, act, momentum, velocity, last, memo, nops,
                   limit, alive, samples, merged>>

\* Every sample is processed: the driver merges, a += b.
LayerPassMerge ==
    /\ kind = "Layer" /\ ~merged /\ \A i \in 1..MaxSamples : owner[i] # "none"
    /\ grad' = [grad EXCEPT !["a"] = LayerAddAssign(grad["a"], grad["b"])]
    /\ inexact' = (inexact \/ MergeRounds(grad["a"], grad["b"]))
    /\ merged' = TRUE
    /\ UNCHANGED <<kind, act, self, momentum, velocity, last, memo, nops,
                   limit, alive, samples, owner>>

SparsePassMerge ==
    /\ kind = "SparseLayer" /\ ~merged
    /\ \A i \in 1..MaxSamples : owner[i] # "none"
    /\ grad' = [grad EXCEPT !["a"] = SparseAddAssign(grad["a"], grad["b"])]
    /\ inexact' = (inexact \/ MergeRounds(grad["a"], grad["b"]))
    /\ merged' = TRUE
    /\ UNCHANGED <<kind, act, self, momentum, velocity, last, memo, nops,
                   limit, alive, samples, owner>>

NextPass ==
    \/ \E w \in Workers, i \in 1..MaxSamples : LayerPassBackprop(w, i)
    \/ \E w \in Workers, i \in 1..MaxSamples : SparsePassBackprop(w, i)
    \/ LayerPassMerge
    \/ SparsePassMerge

SpecPass == InitPass /\ [][NextPass]_vars

\* =============================================================== claims
\* The instance a call's receiver or accumulator names.
Inst(n) == IF n = "self" THEN self ELSE grad[n]

IsZero(l) ==
    /\ \A i \in DOMAIN l.weights : \A j \in DOMAIN l.weights[i] :
           l.weights[i][j] = 0
    /\ \A j \in DOMAIN l.bias : l.bias[j] = 0

\* seq[1] + seq[2] + .. added to acc one f32 addition at a time.
RECURSIVE FoldAdd(_, _)
FoldAdd(acc, seq) ==
    IF seq = <<>> THEN acc ELSE FoldAdd(Fl(acc + Head(seq)), Tail(seq))

\* Whether some of those additions rounds.
RECURSIVE FoldRounds(_, _)
FoldRounds(acc, seq) ==
    seq # <<>> /\ (Rounds(acc, Head(seq)) \/ FoldRounds(acc + Head(seq), Tail(seq)))

\* The exact sum of a sequence of integers.
RECURSIVE SeqSum(_)
SeqSum(seq) == IF seq = <<>> THEN 0 ELSE Head(seq) + SeqSum(Tail(seq))

\* The activation of one number.
Act1(v) == IF act = "ReLU" /\ v < 0 THEN 0 ELSE v

\* ----------------------------------------------------------------- C1
\* C1: Layer::backprop(G, c, x, y) computes d = c * derivative(y) and leaves
\* G.weights[i] = old G.weights[i] + d[i] * x for every row i, G.bias = old
\* G.bias + d, and returns transpose(W) * d from the layer's own weights; on a
\* zeroed G with c the unit vector at i only row i and bias entry i can be
\* non-zero; the 2x2 identity layer with x = [3, 4], c = [1, 1] gives the
\* weight-gradient [[3, 4], [3, 4]], bias-gradient [1, 1] and returns [1, 1].
C1_DenseBackprop ==
    (kind = "Layer" /\ last.op = "backprop") =>
        LET G  == last.gold
            G2 == grad[last.acc]
            c  == last.args[1]
            xx == last.args[2]
            y  == last.args[3]
            dy == Derivative(act, y)
            d  == [i \in 1..N |-> Fl(c[i] * dy[i])]
        IN  /\ \A i \in 1..N, j \in 1..M :
                   G2.weights[i][j] = Fl(G.weights[i][j] + Fl(d[i] * xx[j]))
            /\ \A i \in 1..N : G2.bias[i] = Fl(G.bias[i] + d[i])
            /\ last.ret =
                   [j \in 1..M |->
                       FoldAdd(0, [i \in 1..N |-> Fl(self.weights[i][j] * d[i])])]
            /\ \A u \in 1..N :
                   (IsZero(G) /\ c = Pat(N, u, 1, 0)) =>
                       \A i \in 1..N : i # u =>
                           /\ G2.bias[i] = 0
                           /\ \A j \in 1..M : G2.weights[i][j] = 0
            /\ ( /\ M = 2 /\ N = 2 /\ act = "Identity" /\ IsZero(G)
                 /\ self = [weights |-> <<<<1, 0>>, <<0, 1>>>>, bias |-> <<0, 0>>]
                 /\ xx = <<3, 4>> /\ c = <<1, 1>> ) =>
                   /\ G2 = [weights |-> <<<<3, 4>>, <<3, 4>>>>, bias |-> <<1, 1>>]
                   /\ last.ret = <<1, 1>>

\* A backprop of the identity layer on x = [.., 3, 4], c = ones into a zeroed
\* accumulator has happened and left a non-zero gradient.
C1_Witness ==
    /\ kind = "Layer" /\ last.op = "backprop" /\ act = "Identity"
    /\ self = LayerFromRaw(Eye(N, M), VecZeroed(N))
    /\ last.args[1] = VecConst(N, 1) /\ last.args[2] = Pat(M, M, 4, 3)
    /\ IsZero(last.gold)
    /\ grad[last.acc].weights[1][M] = 4
    /\ last.ret = VecConst(M, 1)

\* ----------------------------------------------------------------- C2
\* The dense layer whose weight matrix is the transpose of a sparse layer's.
DenseTwin(sp) ==
    LayerFromRaw([i \in 1..N |-> [f \in 1..M |-> sp.weights[f][i]]], sp.bias)

Range(f) == {f[k] : k \in DOMAIN f}
OneHot(S) == [f \in 1..M |-> IF f \in S THEN 1 ELSE 0]
Distinct(f) == Cardinality(Range(f)) = Len(f)

\* Every listing of the same indices, each once.
Listings(S) ==
    {f \in [1..Cardinality(S) -> S] : Range(f) = S}

\* The exact sum of column j over the rows in T.
RECURSIVE RowSum(_, _, _)
RowSum(w, T, j) ==
    IF T = {} THEN 0
    ELSE LET f == CHOOSE g \in T : TRUE IN w[f][j] + RowSum(w, T \ {f}, j)

\* Whether every partial sum of the bias and the rows in S is an f32.
PartialSumsExact(sp, S) ==
    \A T \in SUBSET S, j \in 1..N, b \in {0, 1} :
        LET t == b * sp.bias[j] + RowSum(sp.weights, T, j) IN Fl(t) = t

\* What C2 compares: out over the list equals the dense out over the one-hot
\* input, and so does out over every other listing of the same indices.
SparseIsDense ==
    LET feats == last.args[1]
    IN  /\ last.ret = LayerOut(act, DenseTwin(self), OneHot(Range(feats)))
        /\ \A f \in Listings(Range(feats)) : SparseOut(act, self, f) = last.ret

\* C2 as stated: for every set of k distinct in-range indices,
\* SparseLayer::out equals the dense out on the one-hot input with transposed
\* weights, and the listing order does not change the result.
C2_SparseDenseAlways ==
    (kind = "SparseLayer" /\ last.op = "out" /\ Distinct(last.args[1])) =>
        SparseIsDense

\* C2 amended: ... when k <= 1 or every partial sum of the bias and the
\* selected weight rows is exactly representable in f32.
C2_SparseDenseExact ==
    ( /\ kind = "SparseLayer" /\ last.op = "out" /\ Distinct(last.args[1])
      /\ \/ Len(last.args[1]) <= 1
         \/ PartialSumsExact(self, Range(last.args[1])) ) =>
        SparseIsDense

\* An out over two distinct indices whose rows change the result.
C2_Witness ==
    /\ kind = "SparseLayer" /\ last.op = "out"
    /\ Len(last.args[1]) = 2 /\ Distinct(last.args[1])
    /\ PartialSumsExact(self, Range(last.args[1]))
    /\ last.ret # self.bias
    /\ last.ret[1] > 0

\* ----------------------------------------------------------------- C3
AddOf(A, B) ==
    IF kind = "Layer" THEN LayerAddAssign(A, B) ELSE SparseAddAssign(A, B)

\* What `lhs += rhs` did, elementwise, and that it commutes.
MergeAddsAndCommutes ==
    LET A == last.old
        B == last.gold
        R == grad[last.recv]
    IN  /\ \A i \in DOMAIN A.weights : \A j \in DOMAIN A.weights[i] :
               R.weights[i][j] = Fl(A.weights[i][j] + B.weights[i][j])
        /\ \A j \in 1..N : R.bias[j] = Fl(A.bias[j] + B.bias[j])
        /\ R = AddOf(B, A)

\* C3 as stated: the merge adds elementwise and is commutative and
\* associative, (A+B)+C == A+(B+C), in every weight and bias entry.
C3_MergeAssociative ==
    last.op = "add_assign" =>
        /\ MergeAddsAndCommutes
        /\ \A n \in Accs :
               AddOf(grad[last.recv], grad[n])
                   = AddOf(last.old, AddOf(last.gold, grad[n]))

\* C3 amended: the merge adds elementwise and is commutative in every
\* entry, and (A+B)+C == A+(B+C) whenever neither A+B nor B+C rounds.
C3_MergeExact ==
    last.op = "add_assign" =>
        /\ MergeAddsAndCommutes
        /\ \A n \in Accs :
               (~MergeRounds(last.old, last.gold)
                    /\ ~MergeRounds(last.gold, grad[n])) =>
                   AddOf(grad[last.recv], grad[n])
                       = AddOf(last.old, AddOf(last.gold, grad[n]))

\* A merge of two different non-zero accumulators, with a non-zero third.
C3_Witness ==
    /\ last.op = "add_assign"
    /\ ~IsZero(last.old) /\ ~IsZero(last.gold) /\ last.old # last.gold
    /\ ~MergeRounds(last.old, last.gold)
    /\ \E n \in Accs : ~IsZero(grad[n]) /\ ~MergeRounds(last.gold, grad[n])

\* ----------------------------------------------------------------- C4
\* C4: SparseLayer::out over any list of in-range indices (any order, empty,
\* repeats) is activation(bias + sum over the list positions of
\* weight_row[f]); an index listed r times contributes its row r times; the
\* empty list yields activation(bias).
C4_SparseOut ==
    (kind = "SparseLayer" /\ last.op = "out") =>
        LET feats == last.args[1]
            col(j) == [k \in 1..Len(feats) |-> self.weights[feats[k]][j]]
        IN  /\ \A j \in 1..N :
                   /\ last.ret[j] = Act1(FoldAdd(self.bias[j], col(j)))
                   /\ ~FoldRounds(self.bias[j], col(j)) =>
                          last.ret[j] =
                              Act1(self.bias[j] + SeqSum(
                                  [f \in 1..M |->
                                      Count(f, feats) * self.weights[f][j]]))
            /\ feats = <<>> => last.ret = Activate(act, self.bias)

\* An out over a list that repeats an index whose row is non-zero.
C4_Witness ==
    /\ kind = "SparseLayer" /\ last.op = "out"
    /\ \E f \in 1..M :
           /\ Count(f, last.args[1]) = 2
           /\ self.weights[f][1] > 0
           /\ last.ret[1] = self.bias[1] + 2 * self.weights[f][1]

\* ----------------------------------------------------------------- C5
\* g + d + .. + d, r f32 additions.
RECURSIVE AddTimes(_, _, _)
AddTimes(g, d, r) == IF r = 0 THEN g ELSE AddTimes(Fl(g + d), d, r - 1)

\* C5: SparseLayer::backprop(G, c, feats, y) computes d = c * derivative(y),
\* adds d to G.weights[f] once per occurrence of f in feats, adds d to G.bias
\* exactly once, leaves every row whose index is not in feats unchanged, and
\* returns no input-side gradient.
C5_SparseBackprop ==
    (kind = "SparseLayer" /\ last.op = "backprop") =>
        LET G     == last.gold
            G2    == grad[last.acc]
            c     == last.args[1]
            feats == last.args[2]
            dy    == Derivative(act, last.args[3])
            d     == [j \in 1..N |-> Fl(c[j] * dy[j])]
        IN  /\ \A f \in 1..M, j \in 1..N :
                   G2.weights[f][j] =
                       AddTimes(G.weights[f][j], d[j], Count(f, feats))
            /\ \A f \in 1..M : Count(f, feats) = 0 => G2.weights[f] = G.weights[f]
            /\ \A j \in 1..N : G2.bias[j] = Fl(G.bias[j] + d[j])
            /\ last.ret = <<>>

\* A backprop over a list that repeats an index, with a non-zero delta: the
\* repeated row received it twice, the bias once.
C5_Witness ==
    /\ kind = "SparseLayer" /\ last.op = "backprop"
    /\ \E f \in 1..M :
           /\ Count(f, last.args[2]) = 2
           /\ grad[last.acc].weights[f][1] = last.gold.weights[f][1] + 2
    /\ grad[last.acc].bias[1] = last.gold.bias[1] + 1

C7_OnlyAdamMutates ==
    [][(last'.recv # "none" /\ last'.op # "adam" /\ nops' = nops + 1) =>
          (IF last'.recv = "self" THEN self' ELSE grad'[last'.recv])
              = Inst(last'.recv)]_vars

\* C7 amended: every operation other than adam and the AddAssign merge
\* leaves the receiver's weights and bias unchanged (backprop changes only
\* the accumulator it is handed); the merge changes its left-hand operand,
\* the receiver, alone.
C7_Frame ==
    [][(nops' = nops + 1) =>
          /\ (last'.recv # "none" /\ last'.op \notin {"adam", "add_assign"}) =>
                 (IF last'.recv = "self" THEN self' ELSE grad'[last'.recv])
                     = Inst(last'.recv)
          /\ last'.op # "adam" => self' = self
          /\ last'.op = "backprop" =>
                 \A n \in Accs : n # last'.acc => grad'[n] = grad[n]
          /\ last'.op = "add_assign" =>
                 \A n \in Accs : n # last'.recv => grad'[n] = grad[n]]_vars

\* A backprop that changed the accumulator it was handed, on a layer with
\* non-zero weights.
C7_Witness ==
    /\ last.op = "backprop" /\ last.recv = "self"
    /\ grad[last.acc] # last.gold
    /\ self = last.old /\ ~IsZero(self)

\* ----------------------------------------------------------------- C8
\* C8: every weight and bias entry of a freshly zero-constructed layer
\* (zeroed, or boxed_and_zeroed) is exactly zero, and output_layer() returns
\* the all-zero vector of length N whatever the layer's parameters.
C8_Zeroed ==
    /\ last.op \in {"zeroed", "boxed_and_zeroed"} =>
           /\ IsZero(grad[last.acc]) /\ grad[last.acc] = last.ret
           /\ DOMAIN last.ret.bias = 1..N
           /\ DOMAIN last.ret.weights = 1..(IF kind = "Layer" THEN N ELSE M)
           /\ \A i \in DOMAIN last.ret.weights :
                  DOMAIN last.ret.weights[i] = 1..(IF kind = "Layer" THEN M ELSE N)
    /\ last.op = "output_layer" => last.ret = [j \in 1..N |-> 0]

\* A boxed_and_zeroed instance has replaced an accumulator that held
\* non-zero gradients.
C8_Witness ==
    /\ last.op = "boxed_and_zeroed" /\ ~IsZero(last.gold)
    /\ IsZero(grad[last.acc])

Contribution(smp) ==
    IF kind = "Layer"
    THEN LET d == LayerDelta(smp)
         IN  [weights |-> [i \in 1..N |-> [j \in 1..M |-> FMul(d[i], smp.inp[j])]],
              bias    |-> d]
    ELSE LET d == SparseDelta(smp)
         IN  [weights |-> [f \in 1..M |-> [j \in 1..N |->
                              Count(f, smp.inp) * d[j]]],
              bias    |-> d]

\* The exact (unrounded) sum of the contributions of samples 1..n.
RECURSIVE ExactTotal(_)
ExactTotal(n) ==
    IF n = 0 THEN ZeroedOf(kind)
    ELSE LET t == ExactTotal(n - 1)
             c == Contribution(samples[n])
         IN  [weights |-> [i \in DOMAIN t.weights |-> [j \in DOMAIN t.weights[i] |->
                              t.weights[i][j] + c.weights[i][j]]],
              bias    |-> [j \in 1..N |-> t.bias[j] + c.bias[j]]]

\* Samples 1..n accumulated, in that order, into one zeroed accumulator.
RECURSIVE SingleAccum(_)
SingleAccum(n) ==
    IF n = 0 THEN ZeroedOf(kind)
    ELSE IF kind = "Layer"
         THEN LayerBackprop(act, self, SingleAccum(n - 1), samples[n].c,
                            samples[n].inp,
                            LayerOut(act, self, samples[n].inp)).grad
         ELSE SparseBackprop(act, self, SingleAccum(n - 1), samples[n].c,
                             samples[n].inp,
                             SparseOut(act, self, samples[n].inp)).grad

\* C10 as stated: whatever the order, the split between two zeroed
\* accumulators and the interleaving, the merged accumulator equals the one
\* that accumulates all samples into a single zeroed accumulator.
C10_OrderIndependent ==
    merged => grad["a"] = SingleAccum(MaxSamples)

\* C10 amended: ... whenever no accumulation or merge addition rounds, the
\* merged accumulator is the exact sum of the samples' contributions,
\* whatever the order, the split and the interleaving.
C10_ExactOrderIndependent ==
    (merged /\ ~inexact) => grad["a"] = ExactTotal(MaxSamples)

\* A merged pass in which both workers took samples and nothing rounded.
C10_Witness ==
    /\ merged /\ ~inexact
    /\ \E i, j \in 1..MaxSamples : owner[i] = "a" /\ owner[j] = "b"
    /\ ~IsZero(grad["b"]) /\ grad["a"] # grad["b"]
====
